---- MODULE Spec2Model ----
(***************************************************************************)
(* The AI action-confirmation workflow of the event management system:     *)
(* ems_core.views.chat_api, ems_core.views._execute_pending_action,        *)
(* ai.models.PendingAIAction, ai.services.action_planner.plan_action and   *)
(* the organizer approval views of accounts.views.                         *)
(*                                                                         *)
(* Text is a sequence of one-character strings, so that strip(), lower()   *)
(* and int() are computed, not assumed.  A JSON value is a record          *)
(* [t, n, s]: its type tag, its number and its text.  Time is counted in   *)
(* minutes.                                                                *)
(***************************************************************************)
EXTENDS Integers, Sequences, FiniteSets, TLC

(* ---------------------------------------------------------------------- *)
(* Bounds of the model                                                     *)
(* ---------------------------------------------------------------------- *)
MaxTime == 5
MaxPendingId == 2
MaxEventId == 4
MaxOrganizerId == 3

(* ---------------------------------------------------------------------- *)
(* Text                                                                    *)
(* ---------------------------------------------------------------------- *)
S_yes == <<"y", "e", "s">>
S_YES_padded == <<" ", "Y", "E", "S", " ">>
S_do_it == <<"d", "o", " ", "i", "t">>
S_no == <<"n", "o">>
S_Abort == <<"A", "b", "o", "r", "t">>
S_yes_please == <<"y", "e", "s", " ", "p", "l", "s">>
S_hello == <<"h", "i">>
S_blank == <<" ", " ">>
S_gala == <<"g", "a", "l", "a">>
S_Gala == <<"G", "a", "l", "a">>
S_expo == <<"e", "x", "p", "o">>
S_hall == <<"h", "a", "l", "l">>
S_HALL == <<"H", "A", "L", "L">>
S_barn == <<"b", "a", "r", "n">>
S_2 == <<"2">>
S_1 == <<"1">>

UpperToLower ==
    [c \in {"A", "B", "E", "G", "H", "L", "O", "R", "S", "T", "Y"} |->
        CASE c = "A" -> "a" [] c = "B" -> "b" [] c = "E" -> "e"
          [] c = "G" -> "g" [] c = "H" -> "h" [] c = "L" -> "l"
          [] c = "O" -> "o" [] c = "R" -> "r" [] c = "S" -> "s"
          [] c = "T" -> "t" [] c = "Y" -> "y"]

LowerChar(c) == IF c \in DOMAIN UpperToLower THEN UpperToLower[c] ELSE c

\* str.lower()
Lower(s) == [i \in 1..Len(s) |-> LowerChar(s[i])]

RECURSIVE LStrip(_)
LStrip(s) == IF s # << >> /\ Head(s) = " " THEN LStrip(Tail(s)) ELSE s

RECURSIVE RStrip(_)
RStrip(s) ==
    IF s # << >> /\ s[Len(s)] = " " THEN RStrip(SubSeq(s, 1, Len(s) - 1)) ELSE s

\* str.strip()
Strip(s) == RStrip(LStrip(s))

DigitValue ==
    [c \in {"0", "1", "2", "3", "4", "5", "6", "7", "8", "9"} |->
        CASE c = "0" -> 0 [] c = "1" -> 1 [] c = "2" -> 2 [] c = "3" -> 3
          [] c = "4" -> 4 [] c = "5" -> 5 [] c = "6" -> 6 [] c = "7" -> 7
          [] c = "8" -> 8 [] c = "9" -> 9]

\* the texts int() accepts: optional surrounding blanks around decimal digits
IsIntText(s) ==
    /\ Strip(s) # << >>
    /\ \A i \in 1..Len(Strip(s)) : Strip(s)[i] \in DOMAIN DigitValue

RECURSIVE DigitsValue(_)
DigitsValue(s) ==
    IF s = << >> THEN 0
    ELSE 10 * DigitsValue(SubSeq(s, 1, Len(s) - 1)) + DigitValue[s[Len(s)]]

\* int(text), defined when IsIntText(text)
ParseInt(s) == DigitsValue(Strip(s))

(* ---------------------------------------------------------------------- *)
(* JSON values held in a payload                                           *)
(* ---------------------------------------------------------------------- *)
JMissing == [t |-> "missing", n |-> 0, s |-> << >>]   \* key absent
JNull == [t |-> "null", n |-> 0, s |-> << >>]
JInt(n) == [t |-> "int", n |-> n, s |-> << >>]
JStr(s) == [t |-> "str", n |-> 0, s |-> s]
\* a text in the "YYYY-MM-DD HH:MM" format; n is the minute it denotes
JDate(n) == [t |-> "date", n |-> n, s |-> <<"d">>]
\* a non-empty JSON array: a non-scalar value
JList == [t |-> "list", n |-> 0, s |-> << >>]

\* dict.get(key): None when the key is absent
Get(params, key) == IF params[key] = JMissing THEN JNull ELSE params[key]

\* dict.get(key, default)
GetOr(params, key, default) ==
    IF params[key] = JMissing THEN default ELSE params[key]

\* Python truth value of a JSON value
Truthy(v) ==
    CASE v.t = "null" -> FALSE
      [] v.t = "missing" -> FALSE
      [] v.t = "int" -> v.n # 0
      [] v.t = "str" -> v.s # << >>
      [] OTHER -> TRUE

\* a or b
OrElse(a, b) == IF Truthy(a) THEN a ELSE b


Digit == <<"0", "1", "2", "3", "4", "5", "6", "7", "8", "9">>

RECURSIVE IntToText(_)
\* str(n) for n >= 0
IntToText(n) ==
    IF n < 10 THEN <<Digit[n + 1]>>
    ELSE IntToText(n \div 10) \o <<Digit[(n % 10) + 1]>>

(* ---------------------------------------------------------------------- *)
(* State                                                                   *)
(* ---------------------------------------------------------------------- *)
VARIABLES
    pendings,       \* PendingAIAction rows
    nextPendingId,  \* next primary key of PendingAIAction
    now,            \* timezone.now(), in minutes
    events,         \* Event rows
    nextEventId,    \* next primary key of Event
    venues,         \* Venue rows
    bookings,       \* Booking rows
    organizers,     \* Organizer rows
    profileOrg,     \* UserProfile.organizer of each user (None is NoOrganizer)
    last,           \* what the latest chat_api request did (history)
    reqs,           \* chat_api requests in flight, step by step
    applied         \* how often each pending action's mutation was applied (history)

vars == <<pendings, nextPendingId, now, events, nextEventId, venues, bookings,
          organizers, profileOrg, last, reqs, applied>>

Users == {"alice", "bob"}
NoUser == "nobody"
NoOrganizer == 0

\* "no pending action": pending = None
NoRow ==
    [id |-> 0, user |-> NoUser, action_type |-> "none",
     payload |-> [k \in {} |-> 0], created_at |-> 0, expires_at |-> 0]

MutationKinds ==
    {"create_event", "update_event", "delete_event", "create_venue", "cancel_booking"}

\* PendingAIAction.create_for(..., minutes=5)
TTL == 5

ParamKeys ==
    {"title", "venue_name", "start", "end", "capacity", "ticket_price", "status",
     "identifier", "booking_id"}

NoParams == [k \in ParamKeys |-> JMissing]

\* a payload holding the given keys
Params(given) ==
    [k \in ParamKeys |-> IF k \in DOMAIN given THEN given[k] ELSE JMissing]

(* ---------------------------------------------------------------------- *)
(* PendingAIAction                                                         *)
(* ---------------------------------------------------------------------- *)
IsExpiredAlways(p, t) == TRUE

IsExpiredLate(p, t) == p.expires_at < t

\* PendingAIAction.is_expired
IsExpired(p, t) == p.expires_at <= t

\* PendingAIAction.create_for: the new row; nothing else is touched
CreateFor(id, user, action_type, payload, t) ==
    [id |-> id, user |-> user, action_type |-> action_type, payload |-> payload,
     created_at |-> t, expires_at |-> t + TTL]

PendingOfAnyone(rows, user) == rows

PendingOf(rows, user) == {p \in rows : p.user = user}

\* created_at has microsecond resolution: rows created within the same minute
\* are ordered by their creation order, which the primary key records.
Newer(p, q) ==
    \/ p.created_at > q.created_at
    \/ p.created_at = q.created_at /\ p.id > q.id

\* PendingAIAction.objects.filter(user=user).order_by("-created_at").first()
MostRecent(rows, user) ==
    IF PendingOf(rows, user) = {} THEN NoRow
    ELSE CHOOSE p \in PendingOf(rows, user) :
            \A q \in PendingOf(rows, user) \ {p} : Newer(p, q)

LivePending(rows, user, t) == {p \in PendingOf(rows, user) : ~IsExpired(p, t)}


(* ---------------------------------------------------------------------- *)
(* The record store as the executor reads and writes it                    *)
(* ---------------------------------------------------------------------- *)
VenuesNamedAny(name) == venues

\* Venue.objects.filter(name__iexact=venue_name)
VenuesNamed(name) ==
    {v \in venues : name.t = "str" /\ Lower(v.name) = Lower(name.s)}

\* QuerySet.first() of an unordered queryset: the row with the least primary key
FirstVenue(rows) ==
    CHOOSE v \in rows : \A w \in rows : v.venue_id <= w.venue_id

FirstEvent(rows) ==
    CHOOSE e \in rows : \A f \in rows : e.event_id <= f.event_id

\* the value a DateTimeField column accepts: a well-formed date text only
\* (None violates NOT NULL, any other text or type fails to_python)
DateFieldAccepts(v) == v.t = "date"

\* IntegerField(null=True) / DecimalField(null=True): None, a number, or a
\* text that converts to one
NumberFieldAccepts(v) ==
    \/ v.t = "null"
    \/ v.t = "int"
    \/ v.t = "str" /\ IsIntText(v.s)

NumberFieldValue(v) ==
    IF v.t = "str" THEN JInt(ParseInt(v.s)) ELSE v

\* Event.clean at time t: the start is not in the past, the end is strictly
\* after the start, and the rules of the event type on capacity and price
EventClean(e, t) ==
    /\ ~(e.start_time < t)
    /\ ~(e.end_time <= e.start_time)
    /\ CASE e.event_type = "EXHIBITION" ->
                e.ticket_price \in {JNull, JInt(0)}
          [] e.event_type = "CONFERENCE" ->
                Truthy(e.capacity) /\ e.ticket_price \in {JNull, JInt(0)}
          [] OTHER ->
                /\ Truthy(e.capacity)
                /\ e.ticket_price.t = "int"
                /\ e.ticket_price.n > 0

\* the text an identifier is compared with by title__iexact
TextOf(v) ==
    CASE v.t = "int" -> IntToText(v.n)
      [] OTHER -> v.s

\* int(identifier) raises ValueError (caught) or TypeError (not caught)
IntRaisesValueError(v) == v.t \in {"str", "date"} /\ ~IsIntText(v.s)
IntRaisesTypeError(v) == v.t \in {"list", "null", "missing"}
IntOf(v) == IF v.t = "int" THEN v.n ELSE ParseInt(v.s)

Unchanged(reply) ==
    [raised |-> FALSE, reply |-> reply, events |-> events, bookings |-> bookings,
     nextEventId |-> nextEventId]

Fault ==
    [raised |-> TRUE, reply |-> "exception", events |-> events,
     bookings |-> bookings, nextEventId |-> nextEventId]

\* _execute_pending_action, action == "create_event"
ExecuteCreateEvent(params, organizer) ==
    LET title == OrElse(Get(params, "title"), JStr(<<"U">>))
        venue_name == Get(params, "venue_name")
        start == Get(params, "start")
        end == OrElse(Get(params, "end"), start)
        capacity == Get(params, "capacity")
        ticket_price == Get(params, "ticket_price")
        status == GetOr(params, "status", JStr(<<"D">>))
    IN  IF organizer = NoOrganizer THEN Unchanged("no_organizer")
        ELSE IF ~Truthy(venue_name) THEN Unchanged("missing_venue_name")
        ELSE IF VenuesNamed(venue_name) = {} THEN Unchanged("venue_not_found")
        ELSE IF \/ ~DateFieldAccepts(start)
                \/ ~DateFieldAccepts(end)
                \/ ~NumberFieldAccepts(capacity)
                \/ ~NumberFieldAccepts(ticket_price)
                \/ status.t = "null"
             THEN Fault   \* Event.objects.create raises; no row is inserted
        ELSE [raised |-> FALSE,
              reply |-> "event_created",
              events |-> events \cup
                  {[event_id |-> nextEventId,
                    organizer |-> organizer,
                    venue |-> FirstVenue(VenuesNamed(venue_name)).venue_id,
                    event_type |-> "EXHIBITION",
                    title |-> TextOf(title),
                    status |-> TextOf(status),
                    start_time |-> start.n,
                    end_time |-> end.n,
                    capacity |-> NumberFieldValue(capacity),
                    ticket_price |-> NumberFieldValue(ticket_price)]},
              bookings |-> bookings,
              nextEventId |-> nextEventId + 1]

ExecuteDeleteAnyEvent(params, organizer) ==
    LET identifier == Get(params, "identifier")
        byId == IF IntRaisesValueError(identifier) THEN {}
                ELSE {e \in events : e.event_id = IntOf(identifier)}
        byTitle == {e \in events : Lower(e.title) = Lower(TextOf(identifier))}
        found == IF byId # {} THEN byId
                 ELSE IF byTitle # {} THEN {FirstEvent(byTitle)}
                 ELSE {}
    IN  IF ~Truthy(identifier) THEN Unchanged("no_identifier")
        ELSE IF IntRaisesTypeError(identifier) THEN Fault
        ELSE IF found = {} THEN Unchanged("event_not_found")
        ELSE [raised |-> FALSE,
              reply |-> "event_deleted",
              events |-> events \ found,
              bookings |-> {b \in bookings : \A e \in found : b.event # e.event_id},
              nextEventId |-> nextEventId]

ExecuteDeleteTitleFirst(params, organizer) ==
    LET identifier == Get(params, "identifier")
        qs == {e \in events : organizer # NoOrganizer /\ e.organizer = organizer}
        byId == IF IntRaisesValueError(identifier) THEN {}
                ELSE {e \in qs : e.event_id = IntOf(identifier)}
        byTitle == {e \in qs : Lower(e.title) = Lower(TextOf(identifier))}
        found == IF byTitle # {} THEN {FirstEvent(byTitle)}
                 ELSE byId
    IN  IF ~Truthy(identifier) THEN Unchanged("no_identifier")
        ELSE IF IntRaisesTypeError(identifier) THEN Fault
        ELSE IF found = {} THEN Unchanged("event_not_found")
        ELSE [raised |-> FALSE,
              reply |-> "event_deleted",
              events |-> events \ found,
              bookings |-> {b \in bookings : \A e \in found : b.event # e.event_id},
              nextEventId |-> nextEventId]

\* _execute_pending_action, action == "delete_event"
ExecuteDeleteEvent(params, organizer) ==
    LET identifier == Get(params, "identifier")
        qs == {e \in events : organizer # NoOrganizer /\ e.organizer = organizer}
        byId == IF IntRaisesValueError(identifier) THEN {}
                ELSE {e \in qs : e.event_id = IntOf(identifier)}
        byTitle == {e \in qs : Lower(e.title) = Lower(TextOf(identifier))}
        found == IF byId # {} THEN byId
                 ELSE IF byTitle # {} THEN {FirstEvent(byTitle)}
                 ELSE {}
    IN  IF ~Truthy(identifier) THEN Unchanged("no_identifier")
        ELSE IF IntRaisesTypeError(identifier) THEN Fault
        ELSE IF found = {} THEN Unchanged("event_not_found")
        ELSE [raised |-> FALSE,
              reply |-> "event_deleted",
              events |-> events \ found,
              \* Booking.event is on_delete=CASCADE
              bookings |-> {b \in bookings : \A e \in found : b.event # e.event_id},
              nextEventId |-> nextEventId]

\* _execute_pending_action, action == "cancel_booking"
ExecuteCancelBooking(params, organizer) ==
    LET booking_id == Get(params, "booking_id")
        found == {b \in bookings :
                    /\ b.booking_id = IntOf(booking_id)
                    /\ organizer # NoOrganizer
                    /\ \E e \in events :
                          e.event_id = b.event /\ e.organizer = organizer}
    IN  IF ~Truthy(booking_id) THEN Unchanged("no_booking_id")
        \* the primary-key lookup converts the value with int(): a text that
        \* is no number, or a list, raises out of Booking.objects.get
        ELSE IF IntRaisesValueError(booking_id) \/ IntRaisesTypeError(booking_id)
             THEN Fault
        ELSE IF found = {} THEN Unchanged("booking_not_found")
        ELSE [raised |-> FALSE,
              reply |-> "booking_cancelled",
              events |-> events,
              bookings |-> (bookings \ found) \cup
                  {[b EXCEPT !.status = "CANCELLED"] : b \in found},
              nextEventId |-> nextEventId]

ExecuteEveryKind(pending, user) ==
    LET params == pending.payload
        organizer == profileOrg[user]
    IN  CASE pending.action_type = "create_event" ->
                ExecuteCreateEvent(params, organizer)
          [] pending.action_type \in {"delete_event", "update_event"} ->
                ExecuteDeleteEvent(params, organizer)
          [] pending.action_type = "cancel_booking" ->
                ExecuteCancelBooking(params, organizer)
          [] OTHER -> Unchanged("not_implemented")

\* _execute_pending_action(pending, user): the reply, whether it raised, and
\* the Event and Booking tables afterwards
ExecutePendingAction(pending, user) ==
    LET params == pending.payload
        organizer == profileOrg[user]
    IN  CASE pending.action_type = "create_event" ->
                ExecuteCreateEvent(params, organizer)
          [] pending.action_type = "delete_event" ->
                ExecuteDeleteEvent(params, organizer)
          [] pending.action_type = "cancel_booking" ->
                ExecuteCancelBooking(params, organizer)
          [] OTHER -> Unchanged("not_implemented")


(* ---------------------------------------------------------------------- *)
(* plan_action                                                             *)
(* ---------------------------------------------------------------------- *)
valid_actions == MutationKinds \cup {"none"}

\* What the completion service does: ask_llm raises AIError ("error"), or
\* returns a text that is no JSON ("not_json"), JSON that is no object
\* ("non_object"), or a JSON object with its "action" and "params" members.
Reply(kind, action, params) == [kind |-> kind, action |-> action, params |-> params]
ActStr(name) == [t |-> "str", name |-> name]
ActMissing == [t |-> "missing", name |-> ""]
ActList == [t |-> "list", name |-> ""]
ParDict(d) == [t |-> "dict", d |-> d]
ParMissing == [t |-> "missing", d |-> NoParams]
ParList == [t |-> "list", d |-> NoParams]

Planned(action, params) == [raised |-> FALSE, action |-> action, params |-> params]
PlanFault == [raised |-> TRUE, action |-> "none", params |-> NoParams]

\* plan_action(message, is_organizer) on the service's reply
PlanAction(reply) ==
    CASE reply.kind = "error" -> PlanFault          \* AIError is not caught
      [] reply.kind = "not_json" -> Planned("none", NoParams)
      [] reply.kind = "non_object" -> PlanFault     \* data.get on a non-dict
      [] OTHER ->
            LET action == IF reply.action.t = "missing" THEN "none"
                          ELSE reply.action.name
                params == IF reply.params.t = "dict" THEN reply.params.d
                          ELSE NoParams
            IN  IF reply.action.t = "list" THEN PlanFault  \* unhashable in a set
                ELSE IF reply.action.t # "str" \/ action \notin valid_actions
                     THEN Planned("none", params)
                ELSE Planned(action, params)

(* ---------------------------------------------------------------------- *)
(* chat_api                                                                *)
(* ---------------------------------------------------------------------- *)
confirm_phrases ==
    {S_yes, <<"y">>, <<"c", "o", "n", "f", "i", "r", "m">>, <<"o", "k">>,
     <<"o", "k", "a", "y">>, S_do_it, <<"g", "o", " ", "a", "h", "e", "a", "d">>}

cancel_phrases ==
    {S_no, <<"n">>, <<"c", "a", "n", "c", "e", "l">>, <<"s", "t", "o", "p">>,
     <<"n", "e", "v", "e", "r", " ", "m", "i", "n", "d">>,
     <<"a", "b", "o", "r", "t">>}

\* message = (body.get("message") or "").strip()
MessageOf(body) == IF body.kind = "object" THEN Strip(body.message) ELSE << >>

NormalizedNoLower(message) == Strip(message)

\* normalized = message.lower().strip()
Normalized(message) == Strip(Lower(message))

IsConfirmAlways(pending, normalized) == normalized \in confirm_phrases

IsConfirmOrCancel(pending, normalized) ==
    pending # NoRow /\ normalized \in confirm_phrases \cup cancel_phrases

\* if pending and normalized in confirm_phrases
IsConfirm(pending, normalized) ==
    pending # NoRow /\ normalized \in confirm_phrases

IsCancelOnlyNo(pending, normalized) == pending # NoRow /\ normalized = S_no

\* if pending and normalized in cancel_phrases
IsCancel(pending, normalized) ==
    pending # NoRow /\ normalized \in cancel_phrases

IsOrganizerAlways(user) == TRUE

\* is_organizer = bool(profile.organizer)
IsOrganizer(user) == profileOrg[user] # NoOrganizer

NoRequest ==
    [op |-> "none", user |-> NoUser, normalized |-> << >>, status |-> 0,
     branch |-> "none", had |-> 0, dropped |-> 0, executed |-> 0,
     raised |-> FALSE, reply |-> "none", action |-> "none", created |-> 0,
     reminder |-> FALSE, params |-> NoParams, kind |-> "none",
     payload |-> NoParams, asked |-> Reply("none", ActMissing, ParMissing),
     text |-> << >>]

Request(user, normalized, status, branch) ==
    [NoRequest EXCEPT !.op = "chat_api", !.user = user,
                      !.normalized = normalized, !.status = status,
                      !.branch = branch]


OutcomeTouching(rows, res, nextPid, req) ==
    [pendings |-> {[p EXCEPT !.expires_at = now + TTL] : p \in rows},
     events |-> res.events, bookings |-> res.bookings,
     nextEventId |-> res.nextEventId, nextPendingId |-> nextPid, last |-> req]

\* the tables and the history after the request, given the tables before it
Outcome(rows, res, nextPid, req) ==
    [pendings |-> rows, events |-> res.events, bookings |-> res.bookings,
     nextEventId |-> res.nextEventId, nextPendingId |-> nextPid, last |-> req]

\* chat_api(request) for the logged-in user, the request body and the
\* completion service's reply to the classification prompt
ChatApiOutcome(user, body, reply) ==
    LET message == MessageOf(body)
        normalized == Normalized(message)
        \* 1) most recent pending action; drop it when expired
        loaded == MostRecent(pendings, user)
        expired == loaded # NoRow /\ IsExpired(loaded, now)
        kept == IF expired THEN pendings \ {loaded} ELSE pendings
        pending == IF expired THEN NoRow ELSE loaded
        seen(status, branch) ==
            [Request(user, normalized, status, branch) EXCEPT
                !.had = pending.id,
                !.text = body.message,
                !.dropped = IF expired THEN loaded.id ELSE 0,
                !.asked = IF branch \in {"classify_fault", "answer", "denied",
                                          "preview"}
                          THEN reply
                          ELSE Reply("none", ActMissing, ParMissing)]
        res == ExecutePendingAction(pending, user)
        \* 2) the action planner
        plan == PlanAction(reply)
        reminder == pending # NoRow
        created == CreateFor(nextPendingId, user, plan.action, plan.params, now)
    IN  IF body.kind = "invalid_json" THEN
            Outcome(pendings, Unchanged("error"), nextPendingId,
                    Request(user, << >>, 400, "bad_request"))
        ELSE IF body.kind = "non_object" THEN
            \* body.get on a JSON list, text or number raises AttributeError
            Outcome(pendings, Unchanged("exception"), nextPendingId,
                    [Request(user, << >>, 500, "body_fault") EXCEPT
                        !.raised = TRUE, !.reply = "exception"])
        ELSE IF message = << >> THEN
            Outcome(pendings, Unchanged("error"), nextPendingId,
                    Request(user, << >>, 400, "bad_request"))
        ELSE IF IsConfirm(pending, normalized) THEN
            IF res.raised THEN
                \* the exception leaves chat_api before pending.delete()
                Outcome(kept, res, nextPendingId,
                        [seen(500, "confirm") EXCEPT
                            !.executed = pending.id, !.raised = TRUE,
                            !.reply = res.reply, !.kind = pending.action_type,
                            !.payload = pending.payload])
            ELSE
                Outcome(kept \ {pending}, res, nextPendingId,
                        [seen(200, "confirm") EXCEPT
                            !.executed = pending.id, !.reply = res.reply,
                            !.kind = pending.action_type,
                            !.payload = pending.payload])
        ELSE IF IsCancel(pending, normalized) THEN
            Outcome(kept \ {pending}, Unchanged("cancelled"), nextPendingId,
                    [seen(200, "cancel") EXCEPT !.reply = "cancelled"])
        ELSE IF plan.raised THEN
            Outcome(kept, Unchanged("exception"), nextPendingId,
                    [seen(500, "classify_fault") EXCEPT
                        !.raised = TRUE, !.reply = "exception"])
        ELSE IF plan.action = "none" THEN
            Outcome(kept, Unchanged("answer"), nextPendingId,
                    [seen(200, "answer") EXCEPT
                        !.reply = "answer", !.reminder = reminder])
        ELSE IF ~IsOrganizer(user) THEN
            Outcome(kept, Unchanged("permission_denied"), nextPendingId,
                    [seen(200, "denied") EXCEPT
                        !.reply = "permission_denied", !.action = plan.action])
        ELSE
            \* 3) store PendingAIAction and return a preview
            Outcome(kept \cup {created}, Unchanged("preview"), nextPendingId + 1,
                    [seen(200, "preview") EXCEPT
                        !.reply = "preview", !.action = plan.action,
                        !.params = plan.params, !.created = created.id])


(* ---------------------------------------------------------------------- *)
(* Inputs                                                                  *)
(* ---------------------------------------------------------------------- *)
Body(kind, message) == [kind |-> kind, message |-> message]

Bodies ==
    {Body("invalid_json", << >>), Body("non_object", << >>),
     Body("object", << >>)} \cup
    {Body("object", m) :
        m \in {S_yes, S_YES_padded, S_do_it, S_no, S_Abort, S_yes_please,
               S_hello, S_blank}}

\* the start and end of an event to come
StartAt == 8
EndAt == 9

P_event_full ==
    Params([title |-> JStr(S_Gala), venue_name |-> JStr(S_HALL),
            start |-> JDate(StartAt), end |-> JDate(EndAt),
            capacity |-> JInt(100), ticket_price |-> JNull])
\* the payload of the specification's round-trip example: no start, no end
P_event_no_dates ==
    Params([title |-> JStr(S_Gala), venue_name |-> JStr(S_HALL),
            capacity |-> JInt(100), ticket_price |-> JNull])
P_event_bad_capacity ==
    Params([title |-> JStr(S_Gala), venue_name |-> JStr(S_hall),
            start |-> JDate(StartAt), capacity |-> JStr(S_gala)])
P_event_no_venue ==
    Params([title |-> JStr(S_Gala), venue_name |-> JStr(S_barn),
            start |-> JDate(StartAt), end |-> JDate(EndAt)])
P_delete_own_id == Params([identifier |-> JInt(1)])
P_delete_own_title == Params([identifier |-> JStr(S_Gala)])
P_delete_foreign_title == Params([identifier |-> JStr(S_expo)])
P_delete_list == Params([identifier |-> JList])
P_cancel_own == Params([booking_id |-> JInt(1)])
P_cancel_foreign == Params([booking_id |-> JStr(S_2)])
P_cancel_text == Params([booking_id |-> JStr(S_gala)])

Plans ==
    {<<"create_event", P_event_full>>, <<"create_event", P_event_no_dates>>,
     <<"create_event", P_event_bad_capacity>>, <<"create_event", P_event_no_venue>>,
     <<"delete_event", P_delete_own_id>>, <<"delete_event", P_delete_own_title>>,
     <<"delete_event", P_delete_foreign_title>>, <<"delete_event", P_delete_list>>,
     <<"delete_event", NoParams>>,
     <<"cancel_booking", P_cancel_own>>, <<"cancel_booking", P_cancel_foreign>>,
     <<"cancel_booking", P_cancel_text>>,
     <<"update_event", P_delete_own_id>>, <<"create_venue", NoParams>>,
     <<"none", NoParams>>, <<"refund_all", NoParams>>}

Replies ==
    {Reply("error", ActMissing, ParMissing),
     Reply("not_json", ActMissing, ParMissing),
     Reply("non_object", ActMissing, ParMissing),
     Reply("object", ActMissing, ParMissing),
     Reply("object", ActList, ParMissing),
     Reply("object", ActStr("delete_event"), ParList)} \cup
    {Reply("object", ActStr(pl[1]), ParDict(pl[2])) : pl \in Plans}

\* the requests and replies of the workflow specification
CoreBodies ==
    {Body("invalid_json", << >>), Body("object", S_blank),
     Body("object", S_YES_padded), Body("object", S_Abort),
     Body("object", S_hello)}

CorePlans ==
    {<<"cancel_booking", P_cancel_own>>, <<"delete_event", P_delete_list>>,
     <<"create_event", P_event_full>>, <<"none", NoParams>>}

CoreReplies ==
    {Reply("error", ActMissing, ParMissing)} \cup
    {Reply("object", ActStr(pl[1]), ParDict(pl[2])) : pl \in CorePlans}

\* the confirmations of the executor on events and venues, with payloads
\* that name own, foreign and absent records
P_event_no_end ==
    Params([title |-> JStr(S_Gala), venue_name |-> JStr(S_hall),
            start |-> JDate(StartAt)])
P_event_unnamed ==
    Params([title |-> JStr(S_Gala), start |-> JDate(StartAt),
            end |-> JDate(EndAt)])
P_delete_foreign_id == Params([identifier |-> JInt(2)])
P_cancel_absent == Params([booking_id |-> JInt(7)])
\* an event whose title reads like the primary key of another event
P_event_titled_1 ==
    Params([title |-> JStr(S_1), venue_name |-> JStr(S_hall),
            start |-> JDate(StartAt), end |-> JDate(EndAt)])
P_delete_id_text == Params([identifier |-> JStr(S_1)])

ExecPlans ==
    {<<"create_event", P_event_full>>, <<"create_event", P_event_no_dates>>,
     <<"create_event", P_event_no_end>>, <<"create_event", P_event_no_venue>>,
     <<"create_event", P_event_unnamed>>, <<"create_event", P_event_titled_1>>,
     <<"delete_event", P_delete_id_text>>,
     <<"delete_event", P_delete_own_title>>, <<"delete_event", P_delete_foreign_id>>,
     <<"delete_event", P_delete_foreign_title>>,
     <<"update_event", P_delete_own_id>>, <<"create_venue", NoParams>>}

\* the confirmations that touch bookings: cancellations, and the deletion of
\* an event that has a booking
BookPlans ==
    {<<"cancel_booking", P_cancel_own>>, <<"cancel_booking", P_cancel_foreign>>,
     <<"cancel_booking", P_cancel_absent>>, <<"cancel_booking", P_cancel_text>>,
     <<"cancel_booking", NoParams>>, <<"delete_event", P_delete_own_id>>}

BookReplies == {Reply("object", ActStr(pl[1]), ParDict(pl[2])) : pl \in BookPlans}

ExecBodies == {Body("object", S_yes), Body("object", S_hello)}

ExecReplies == {Reply("object", ActStr(pl[1]), ParDict(pl[2])) : pl \in ExecPlans}

(* ---------------------------------------------------------------------- *)
(* Initial state: alice is an approved organizer with one event and one    *)
(* booking on it; another organizer without a login owns a second event;   *)
(* bob is a participant.                                                   *)
(* ---------------------------------------------------------------------- *)
Slots == {1, 2}

Idle == [pc |-> "idle", user |-> NoUser, normalized |-> << >>, pending |-> NoRow,
         plan |-> Planned("none", NoParams)]

Init ==
    /\ pendings = {}
    /\ nextPendingId = 1
    /\ now = 0
    /\ organizers =
          {[organizer_id |-> 1, user |-> "alice", status |-> "APPROVED"],
           [organizer_id |-> 2, user |-> NoUser, status |-> "APPROVED"]}
    /\ profileOrg = [u \in Users |-> IF u = "alice" THEN 1 ELSE NoOrganizer]
    /\ venues = {[venue_id |-> 1, name |-> S_hall]}
    /\ events =
          {[event_id |-> 1, organizer |-> 1, venue |-> 1,
            event_type |-> "EXHIBITION", title |-> S_gala, status |-> <<"D">>,
            start_time |-> StartAt, end_time |-> EndAt,
            capacity |-> JNull, ticket_price |-> JNull],
           [event_id |-> 2, organizer |-> 2, venue |-> 1,
            event_type |-> "EXHIBITION", title |-> S_expo, status |-> <<"D">>,
            start_time |-> StartAt, end_time |-> EndAt,
            capacity |-> JNull, ticket_price |-> JNull]}
    /\ nextEventId = 3
    /\ bookings =
          {[booking_id |-> 1, event |-> 1, status |-> "PENDING"],
           [booking_id |-> 2, event |-> 2, status |-> "APPROVED"]}
    /\ last = NoRequest
    /\ reqs = [r \in Slots |-> Idle]
    /\ applied = [id \in 1..(MaxPendingId + 1) |-> 0]

(* ---------------------------------------------------------------------- *)
(* Actions: one chat_api request handled from start to end                 *)
(* ---------------------------------------------------------------------- *)
\* the request gets as far as plan_action
ReachesPlanner(out) ==
    out.last.branch \in {"classify_fault", "answer", "denied", "preview"}

NoReply == Reply("error", ActMissing, ParMissing)

Commit(out) ==
    /\ out.nextPendingId <= MaxPendingId + 1
    /\ out.nextEventId <= MaxEventId + 1
    /\ pendings' = out.pendings
    /\ nextPendingId' = out.nextPendingId
    /\ events' = out.events
    /\ nextEventId' = out.nextEventId
    /\ bookings' = out.bookings
    /\ last' = out.last
    /\ UNCHANGED <<now, venues, organizers, profileOrg, reqs, applied>>

\* One request from start to end.  The completion service is asked only on
\* the way through plan_action, so its reply is an input of those requests
\* only.
ChatApi(user, body, replies) ==
    /\ \A r \in Slots : reqs[r].pc = "idle"
    /\ \E unasked \in {ChatApiOutcome(user, body, NoReply)} :
          IF ReachesPlanner(unasked)
          THEN \E reply \in replies :
                  \E out \in {ChatApiOutcome(user, body, reply)} : Commit(out)
          ELSE Commit(unasked)

\* time passes
Tick ==
    /\ now < MaxTime
    /\ now' = now + 1
    /\ last' = NoRequest
    /\ UNCHANGED <<pendings, nextPendingId, events, nextEventId, venues, bookings,
                   organizers, profileOrg, reqs, applied>>


(* ---------------------------------------------------------------------- *)
(* Actions: the organizer approval flow                                    *)
(* ---------------------------------------------------------------------- *)
OrganizersOf(user) == {o \in organizers : o.user = user}

\* Organizer.objects.filter(user=request.user).order_by("-organizer_id").first()
LatestOrganizer(user) ==
    CHOOSE o \in OrganizersOf(user) :
        \A q \in OrganizersOf(user) : q.organizer_id <= o.organizer_id

NextOrganizerId ==
    1 + Cardinality(organizers)

SetStatus(organizer_id, status) ==
    {IF o.organizer_id = organizer_id THEN [o EXCEPT !.status = status] ELSE o :
        o \in organizers}

\* become_organizer, POST
BecomeOrganizer(user) ==
    /\ \A r \in Slots : reqs[r].pc = "idle"
    /\ IF OrganizersOf(user) # {} /\ LatestOrganizer(user).status = "APPROVED"
       THEN /\ profileOrg' =
                  [profileOrg EXCEPT ![user] = LatestOrganizer(user).organizer_id]
            /\ UNCHANGED organizers
       ELSE IF OrganizersOf(user) # {} /\ LatestOrganizer(user).status = "PENDING"
       THEN UNCHANGED <<profileOrg, organizers>>
       \* Organizer.user is one-to-one: the insert of a second row for a
       \* rejected user violates the unique constraint and raises
       ELSE IF OrganizersOf(user) # {}
       THEN UNCHANGED <<profileOrg, organizers>>
       ELSE /\ NextOrganizerId <= MaxOrganizerId
            /\ organizers' = organizers \cup
                  {[organizer_id |-> NextOrganizerId, user |-> user,
                    status |-> "PENDING"]}
            /\ UNCHANGED profileOrg
    /\ last' = NoRequest
    /\ UNCHANGED <<pendings, nextPendingId, now, events, nextEventId, venues,
                   bookings, reqs, applied>>

\* admin_organizer_approve
AdminOrganizerApprove(o) ==
    /\ \A r \in Slots : reqs[r].pc = "idle"
    /\ o \in organizers
    /\ organizers' = SetStatus(o.organizer_id, "APPROVED")
    /\ profileOrg' =
          IF o.user # NoUser THEN [profileOrg EXCEPT ![o.user] = o.organizer_id]
          ELSE profileOrg
    /\ last' = NoRequest
    /\ UNCHANGED <<pendings, nextPendingId, now, events, nextEventId, venues,
                   bookings, reqs, applied>>

AdminOrganizerRejectStatusOnly(o) ==
    /\ \A r \in Slots : reqs[r].pc = "idle"
    /\ o \in organizers
    /\ organizers' = SetStatus(o.organizer_id, "REJECTED")
    /\ last' = NoRequest
    /\ UNCHANGED <<pendings, nextPendingId, now, events, nextEventId, venues,
                   bookings, reqs, applied, profileOrg>>

\* admin_organizer_reject
AdminOrganizerReject(o) ==
    /\ \A r \in Slots : reqs[r].pc = "idle"
    /\ o \in organizers
    /\ organizers' = SetStatus(o.organizer_id, "REJECTED")
    /\ profileOrg' =
          IF o.user # NoUser /\ profileOrg[o.user] = o.organizer_id
          THEN [profileOrg EXCEPT ![o.user] = NoOrganizer]
          ELSE profileOrg
    /\ last' = NoRequest
    /\ UNCHANGED <<pendings, nextPendingId, now, events, nextEventId, venues,
                   bookings, reqs, applied>>

\* alice writes; once her organizer is rejected she is a participant
CoreUsers == {"alice"}

HasLogin(o) == o.user # NoUser

\* The workflow: chat_api requests handled one at a time, the clock, and an
\* administrator approving and rejecting the organizers that have a login.
Next ==
    \/ \E user \in CoreUsers, body \in CoreBodies :
          ChatApi(user, body, CoreReplies)
    \/ Tick
    \/ \E o \in {x \in organizers : HasLogin(x)} : AdminOrganizerApprove(o)
    \/ \E o \in {x \in organizers : HasLogin(x)} : AdminOrganizerReject(o)

Spec == Init /\ [][Next]_vars

\* The executor: an organizer asks for every kind of mutation and confirms,
\* also after an administrator rejected the organizer.
NextExec ==
    \/ \E user \in CoreUsers, body \in ExecBodies :
          ChatApi(user, body, ExecReplies)
    \/ \E o \in {x \in organizers : HasLogin(x)} : AdminOrganizerApprove(o)
    \/ \E o \in {x \in organizers : HasLogin(x)} : AdminOrganizerReject(o)

SpecExec == Init /\ [][NextExec]_vars

\* The executor on bookings.
NextBook ==
    \/ \E user \in CoreUsers, body \in ExecBodies :
          ChatApi(user, body, BookReplies)
    \/ \E o \in {x \in organizers : HasLogin(x)} : AdminOrganizerApprove(o)
    \/ \E o \in {x \in organizers : HasLogin(x)} : AdminOrganizerReject(o)

SpecBook == Init /\ [][NextBook]_vars

\* The classifier: every shape of reply the completion service can give.
PlanBodies == {Body("object", S_yes), Body("object", S_hello)}

NextPlan ==
    \E user \in CoreUsers, body \in PlanBodies : ChatApi(user, body, Replies)

SpecPlan == Init /\ [][NextPlan]_vars

\* The conversation: every form of request body over time, with a classifier
\* that finds a mutation or none.
TalkReplies ==
    {Reply("object", ActStr("create_event"), ParDict(P_event_full)),
     Reply("object", ActStr("none"), ParDict(NoParams))}

NextTalk ==
    \/ \E user \in CoreUsers, body \in Bodies : ChatApi(user, body, TalkReplies)
    \/ Tick

SpecTalk == Init /\ [][NextTalk]_vars

\* The organizer approval flow next to the chat: both users write, ask to
\* become organizers, and an administrator approves and rejects.
OrgBodies == {Body("object", S_yes), Body("object", S_hello)}

OrgReplies ==
    {Reply("object", ActStr("cancel_booking"), ParDict(P_cancel_own)),
     Reply("object", ActStr("none"), ParDict(NoParams))}

NextOrg ==
    \/ \E user \in Users, body \in OrgBodies : ChatApi(user, body, OrgReplies)
    \/ Tick
    \/ \E user \in Users : BecomeOrganizer(user)
    \/ \E o \in {x \in organizers : HasLogin(x)} : AdminOrganizerApprove(o)
    \/ \E o \in {x \in organizers : HasLogin(x)} : AdminOrganizerReject(o)

SpecOrg == Init /\ [][NextOrg]_vars


(* ---------------------------------------------------------------------- *)
(* chat_api statement by statement: two requests in flight at once.        *)
(* No transaction and no lock surrounds the view, so every database        *)
(* statement commits on its own and the requests interleave between        *)
(* statements.                                                             *)
(* ---------------------------------------------------------------------- *)
InFlight(pc, user, normalized, pending, plan) ==
    [pc |-> pc, user |-> user, normalized |-> normalized, pending |-> pending,
     plan |-> plan]

ConcFrame == UNCHANGED <<now, venues, organizers, profileOrg, last>>

\* lines 205-225: parse the body, load the most recent pending action
ReqLoad(r, user, body) ==
    /\ reqs[r].pc = "idle"
    /\ MessageOf(body) # << >>
    /\ reqs' = [reqs EXCEPT ![r] =
                  InFlight("loaded", user, Normalized(MessageOf(body)),
                           MostRecent(pendings, user), Planned("none", NoParams))]
    /\ UNCHANGED <<pendings, nextPendingId, events, nextEventId, bookings, applied>>
    /\ ConcFrame

\* lines 228-230: drop the loaded row when it is expired
ReqDropExpired(r) ==
    /\ reqs[r].pc = "loaded"
    /\ reqs' = [reqs EXCEPT ![r].pc = "checked",
                            ![r].pending =
                                IF reqs[r].pending # NoRow
                                   /\ IsExpired(reqs[r].pending, now)
                                THEN NoRow ELSE reqs[r].pending]
    /\ pendings' =
          IF reqs[r].pending # NoRow /\ IsExpired(reqs[r].pending, now)
          THEN {p \in pendings : p.id # reqs[r].pending.id}
          ELSE pendings
    /\ UNCHANGED <<nextPendingId, events, nextEventId, bookings, applied>>
    /\ ConcFrame

\* the executor wrote to the record store
Applies(res) ==
    ~res.raised /\ res.reply \in {"event_created", "event_deleted", "booking_cancelled"}

\* line 236: reply = _execute_pending_action(pending, user)
ReqExecute(r) ==
    /\ reqs[r].pc = "checked"
    /\ IsConfirm(reqs[r].pending, reqs[r].normalized)
    /\ \E res \in {ExecutePendingAction(reqs[r].pending, reqs[r].user)} :
          /\ res.nextEventId <= MaxEventId + 1
          /\ events' = res.events
          /\ bookings' = res.bookings
          /\ nextEventId' = res.nextEventId
          /\ applied' =
                IF Applies(res)
                THEN [applied EXCEPT ![reqs[r].pending.id] = @ + 1]
                ELSE applied
          /\ reqs' = [reqs EXCEPT ![r] =
                        IF res.raised THEN Idle
                        ELSE [reqs[r] EXCEPT !.pc = "executed"]]
    /\ UNCHANGED <<pendings, nextPendingId>>
    /\ ConcFrame

\* lines 237-238: pending.delete(), DELETE ... WHERE id = pending.id
ReqDelete(r) ==
    /\ reqs[r].pc = "executed"
    /\ pendings' = {p \in pendings : p.id # reqs[r].pending.id}
    /\ reqs' = [reqs EXCEPT ![r] = Idle]
    /\ UNCHANGED <<nextPendingId, events, nextEventId, bookings, applied>>
    /\ ConcFrame

\* lines 240-244: the cancel branch
ReqCancel(r) ==
    /\ reqs[r].pc = "checked"
    /\ ~IsConfirm(reqs[r].pending, reqs[r].normalized)
    /\ IsCancel(reqs[r].pending, reqs[r].normalized)
    /\ pendings' = {p \in pendings : p.id # reqs[r].pending.id}
    /\ reqs' = [reqs EXCEPT ![r] = Idle]
    /\ UNCHANGED <<nextPendingId, events, nextEventId, bookings, applied>>
    /\ ConcFrame

\* lines 259-286: plan_action, then the answer or the permission-denied reply
ReqPlan(r, reply) ==
    /\ reqs[r].pc = "checked"
    /\ ~IsConfirm(reqs[r].pending, reqs[r].normalized)
    /\ ~IsCancel(reqs[r].pending, reqs[r].normalized)
    /\ \E plan \in {PlanAction(reply)} :
          reqs' = [reqs EXCEPT ![r] =
                     IF \/ plan.raised
                        \/ plan.action = "none"
                        \/ ~IsOrganizer(reqs[r].user)
                     THEN Idle
                     ELSE [reqs[r] EXCEPT !.pc = "planned", !.plan = plan]]
    /\ UNCHANGED <<pendings, nextPendingId, events, nextEventId, bookings, applied>>
    /\ ConcFrame

\* lines 291-296: PendingAIAction.create_for
ReqCreate(r) ==
    /\ reqs[r].pc = "planned"
    /\ nextPendingId <= MaxPendingId
    /\ pendings' = pendings \cup
          {CreateFor(nextPendingId, reqs[r].user, reqs[r].plan.action,
                     reqs[r].plan.params, now)}
    /\ nextPendingId' = nextPendingId + 1
    /\ reqs' = [reqs EXCEPT ![r] = Idle]
    /\ UNCHANGED <<events, nextEventId, bookings, applied>>
    /\ ConcFrame

\* both requests come from the same identity
ConcUsers == {"alice"}

ConcBodies == {Body("object", S_yes), Body("object", S_no), Body("object", S_hello)}

ConcReplies ==
    {Reply("object", ActStr("create_event"), ParDict(P_event_full)),
     Reply("object", ActStr("cancel_booking"), ParDict(P_cancel_own)),
     Reply("not_json", ActMissing, ParMissing)}

NextConc ==
    \/ \E r \in Slots, user \in ConcUsers, body \in ConcBodies :
          ReqLoad(r, user, body)
    \/ \E r \in Slots : ReqDropExpired(r)
    \/ \E r \in Slots : ReqExecute(r)
    \/ \E r \in Slots : ReqDelete(r)
    \/ \E r \in Slots : ReqCancel(r)
    \/ \E r \in Slots, reply \in ConcReplies : ReqPlan(r, reply)
    \/ \E r \in Slots : ReqCreate(r)
    \/ Tick

SpecConc == Init /\ [][NextConc]_vars


(* ====================================================================== *)
(* Properties                                                              *)
(* ====================================================================== *)
ChatStep == last'.op = "chat_api"
Classified == {"classify_fault", "answer", "denied", "preview"}
RecordsUnchanged == events' = events /\ venues' = venues /\ bookings' = bookings

\* C1: after any sequence of chat_api requests every user has at most one
\* non-expired PendingAIAction row.
C1_AtMostOneLivePending ==
    \A u \in Users : Cardinality(LivePending(pendings, u, now)) <= 1

\* C2: chat_api changes Event, Venue or Booking rows only in a request where
\* the user has an unexpired pending action and the normalized message is a
\* confirm phrase; every other request leaves the record store unchanged.
C2_RecordsChangeOnlyOnConfirm ==
    [][ChatStep =>
          /\ ~RecordsUnchanged =>
                /\ last'.branch = "confirm"
                /\ last'.normalized \in confirm_phrases
                /\ \E p \in pendings :
                      /\ p.id = last'.had
                      /\ p.user = last'.user
                      /\ p.expires_at > now
          /\ last'.branch # "confirm" => RecordsUnchanged]_vars

C2_Witness ==
    /\ last.branch = "confirm"
    /\ last.reply = "booking_cancelled"
    /\ \E b \in bookings : b.booking_id = 1 /\ b.status = "CANCELLED"

\* C3: of two concurrent confirm requests of one user against the same
\* pending action at most one applies its mutation.
C3_AppliedAtMostOnce ==
    \A id \in DOMAIN applied : applied[id] <= 1

\* C4: a request that found no unexpired pending action and stores a new one
\* leaves its user with at most one unexpired pending action, whatever a
\* concurrent request of the same user did in between.
C4_NoTwoLivePendingsAfterRace ==
    [][\A r \in Slots :
          (reqs[r].pc = "planned" /\ reqs'[r].pc = "idle"
              /\ reqs[r].pending = NoRow)
          => Cardinality(LivePending(pendings', reqs[r].user, now')) <= 1]_vars

\* C5: a confirm phrase with an unexpired pending action removes that pending
\* action by the end of the request, whatever the executor's outcome.
C5_ConfirmedPendingRemoved ==
    (last.op = "chat_api" /\ last.branch = "confirm")
    => \A p \in pendings : p.id # last.executed

\* C6: _execute_pending_action returns a text and never raises, so every
\* confirm request ends in a successful reply.
C6_ExecutorNeverRaises ==
    last.branch = "confirm" => ~last.raised /\ last.status = 200


\* the rows of the requesting user that the request removed
Removed == PendingOf(pendings, last'.user) \ PendingOf(pendings', last'.user)

\* a request of a user without organizer link that the classifier maps to a
\* mutation kind
DeniedCase ==
    /\ ChatStep
    /\ last'.action \in MutationKinds
    /\ profileOrg[last'.user] = NoOrganizer

\* C7 as stated: such a request returns the permission-denied reply and the
\* user's set of pending actions is the same before and after it.
C7_PendingsSameWhenDenied ==
    [][DeniedCase =>
          /\ last'.branch = "denied"
          /\ PendingOf(pendings', last'.user) = PendingOf(pendings, last'.user)]_vars

\* C7, amended: such a request returns the permission-denied reply and
\* creates no PendingAIAction; the user's pending actions are the same before
\* and after it, except that an expired most recent one is deleted by the
\* expiry cleanup.
C7_NoPendingCreatedWhenDenied ==
    [][DeniedCase =>
          /\ last'.branch = "denied"
          /\ last'.reply = "permission_denied"
          /\ last'.created = 0
          /\ nextPendingId' = nextPendingId
          /\ PendingOf(pendings', last'.user) \subseteq PendingOf(pendings, last'.user)
          /\ \A p \in Removed :
                p = MostRecent(pendings, last'.user) /\ p.expires_at <= now
          /\ LivePending(pendings', last'.user, now)
                = LivePending(pendings, last'.user, now)]_vars

C7_Witness ==
    /\ last.branch = "denied"
    /\ last.action \in MutationKinds
    /\ profileOrg[last.user] = NoOrganizer
    /\ last.created = 0

\* C8: a pending action created at T expires at T + 5 minutes; a request of
\* its owner at or after that time treats the identity as having no pending
\* action: the expired action the request looks up (the most recent one) is
\* deleted, no expired action is executed, and the message, a confirm phrase
\* included, goes to classification.
C8_ExpiredIsNoPending ==
    [][ChatStep /\ last'.branch # "bad_request" =>
          /\ \A p \in pendings' : p.expires_at = p.created_at + TTL
          /\ \A p \in pendings' \ pendings : p.created_at = now
          /\ \A p \in PendingOf(pendings, last'.user) :
                p.expires_at <= now => last'.executed # p.id /\ last'.had # p.id
          /\ LET loaded == MostRecent(pendings, last'.user)
             IN  (loaded # NoRow /\ loaded.expires_at <= now) =>
                    /\ last'.had = 0
                    /\ last'.dropped = loaded.id
                    /\ loaded \notin pendings'
                    /\ last'.branch \in Classified
                    /\ RecordsUnchanged]_vars

C8_Witness ==
    /\ last.op = "chat_api"
    /\ last.normalized \in confirm_phrases
    /\ last.dropped # 0
    /\ last.branch \in Classified
    /\ now >= TTL

NoLivePendingConfirm ==
    /\ ChatStep
    /\ last'.normalized \in confirm_phrases
    /\ LivePending(pendings, last'.user, now) = {}

\* C9 as stated: with no unexpired pending action a confirm phrase is no
\* confirmation: nothing is executed or deleted and the message goes to the
\* classifier.
C9_NothingExecutedOrDeleted ==
    [][NoLivePendingConfirm =>
          /\ last'.executed = 0
          /\ pendings \subseteq pendings'
          /\ RecordsUnchanged
          /\ last'.branch \in Classified]_vars

\* C9, amended: with no unexpired pending action a confirm phrase is no
\* confirmation: nothing is executed, nothing is deleted except an expired
\* most recent pending action of the user (the expiry cleanup), and the
\* message goes to the classifier.
C9_ConfirmWithoutPendingClassifies ==
    [][NoLivePendingConfirm =>
          /\ last'.executed = 0
          /\ last'.had = 0
          /\ \A p \in pendings \ pendings' :
                p = MostRecent(pendings, last'.user) /\ p.expires_at <= now
          /\ RecordsUnchanged
          /\ last'.branch \in Classified]_vars

C9_Witness ==
    /\ last.op = "chat_api"
    /\ last.normalized \in confirm_phrases
    /\ last.had = 0
    /\ last.executed = 0
    /\ last.branch = "answer"

\* C10: after a cancel phrase removed a user's pending action, an immediately
\* following cancel phrase of that user finds no pending action, removes
\* nothing and goes to classification.
C10_SecondCancelFindsNothing ==
    [][(/\ last.op = "chat_api"
        /\ last.branch = "cancel"
        /\ ChatStep
        /\ last'.user = last.user
        /\ last'.normalized \in cancel_phrases)
       => /\ last'.had = 0
          /\ last'.branch \in Classified
          /\ pendings \subseteq pendings']_vars

\* the pending action chat_api loads for the requesting user is unexpired
LoadedLive ==
    /\ MostRecent(pendings, last'.user) # NoRow
    /\ MostRecent(pendings, last'.user).expires_at > now

\* C11: a cancel phrase received while an unexpired pending action exists
\* deletes that pending action and nothing else, returns the cancellation
\* acknowledgment, calls neither the classifier nor the executor, and leaves
\* every Event, Venue and Booking row unchanged.
C11_CancelDeletesPendingOnly ==
    [][(ChatStep /\ LoadedLive /\ last'.normalized \in cancel_phrases) =>
          /\ last'.branch = "cancel"
          /\ last'.status = 200
          /\ last'.reply = "cancelled"
          /\ last'.executed = 0
          /\ last'.action = "none"
          /\ last'.created = 0
          /\ nextPendingId' = nextPendingId
          /\ pendings' = pendings \ {MostRecent(pendings, last'.user)}
          /\ RecordsUnchanged]_vars

C11_Witness ==
    /\ last.branch = "cancel"
    /\ last.normalized = Lower(S_Abort)
    /\ last.had # 0
    /\ \A p \in pendings : p.id # last.had

\* C12: with an unexpired pending action, a message that is neither a confirm
\* nor a cancel phrase and is answered or denied leaves every pending action
\* as it was (same kind, payload and expiry), and a confirm phrase arriving
\* while the action is unexpired executes it.
C12_OtherMessageKeepsPending ==
    [][(ChatStep /\ LoadedLive) =>
          /\ last'.branch \in {"answer", "denied"} =>
                /\ last'.had = MostRecent(pendings, last'.user).id
                /\ pendings' = pendings
                /\ MostRecent(pendings', last'.user) = MostRecent(pendings, last'.user)
          /\ last'.normalized \in confirm_phrases =>
                /\ last'.branch = "confirm"
                /\ last'.executed = MostRecent(pendings, last'.user).id]_vars

C12_Witness ==
    /\ last.branch \in {"answer", "denied"}
    /\ last.normalized \notin confirm_phrases \cup cancel_phrases
    /\ last.had # 0
    /\ \E p \in pendings :
          p.id = last.had /\ p.user = last.user /\ p.expires_at > now

\* C13: with an unexpired pending action and a message that is neither a
\* confirm nor a cancel phrase, the reply starts with the pending-action
\* reminder on the answer path, the permission-denied path and the
\* new-preview path.
C13_ReminderOnEveryOutcome ==
    [][(ChatStep /\ last'.had # 0
            /\ last'.branch \in {"answer", "denied", "preview"})
       => last'.reminder]_vars

\* C14: a new pending action created for a user who still has an unexpired
\* one discards the earlier one, so that once the newer one is confirmed or
\* cancelled the user has no unexpired pending action left.
C14_EarlierPendingDiscarded ==
    [][ChatStep =>
          /\ (last'.branch = "preview" /\ last'.had # 0) =>
                \A p \in pendings' : p.id # last'.had
          /\ (last'.branch \in {"confirm", "cancel"} /\ ~last'.raised) =>
                LivePending(pendings', last'.user, now) = {}]_vars

\* a confirm request that runs a pending action of the given kind
ConfirmOf(kind) ==
    ChatStep /\ last'.branch = "confirm" /\ last'.kind = kind

\* the value names the record with primary key n
Names(v, n) ==
    \/ v.t = "int" /\ v.n = n
    \/ v.t = "str" /\ IsIntText(v.s) /\ ParseInt(v.s) = n

\* the value is absent or of the form the column takes
WellFormedDate(v) == v.t \in {"missing", "null", "date"}
WellFormedNumber(v) ==
    v.t \in {"missing", "null", "int"} \/ (v.t = "str" /\ IsIntText(v.s))

\* C15: for an organizer a classification {create_event, P} stores a pending
\* action with payload P, and a following "yes", with a venue of P's
\* venue_name existing (case-insensitively), creates an Event with P's title
\* owned by the user's organizer, also when P holds no start and no end.
C15_CreateEventRoundTrip ==
    [][ChatStep =>
          /\ (last'.branch = "preview" /\ last'.action = "create_event") =>
                \E p \in pendings' \ pendings :
                    /\ p.id = last'.created
                    /\ p.user = last'.user
                    /\ p.action_type = "create_event"
                    /\ p.payload = last'.params
          /\ (/\ last'.branch = "confirm"
              /\ last'.kind = "create_event"
              /\ last'.normalized = S_yes
              /\ profileOrg[last'.user] # NoOrganizer
              /\ last'.payload["title"].t = "str"
              /\ last'.payload["venue_name"].t = "str"
              /\ \E v \in venues :
                    Lower(v.name) = Lower(last'.payload["venue_name"].s)
              /\ WellFormedDate(last'.payload["start"])
              /\ WellFormedDate(last'.payload["end"])
              /\ WellFormedNumber(last'.payload["capacity"])
              /\ WellFormedNumber(last'.payload["ticket_price"])) =>
                /\ ~last'.raised
                /\ last'.reply = "event_created"
                /\ \E e \in events' \ events :
                      /\ e.title = last'.payload["title"].s
                      /\ e.organizer = profileOrg[last'.user]]_vars

\* the bookings on the events of the user's organizer
OwnBookings(user) ==
    {b \in bookings :
        \E e \in events : e.event_id = b.event /\ e.organizer = profileOrg[user]}

\* C16: confirming a cancel_booking whose booking_id is not in the store or
\* is on another organizer's event returns a described failure, changes no
\* booking and deletes the pending action; a booking on one of the caller's
\* events becomes CANCELLED and no other booking changes.
C16_CancelBookingOwnOnly ==
    [][ConfirmOf("cancel_booking") =>
          LET target == {b \in OwnBookings(last'.user) :
                            Names(last'.payload["booking_id"], b.booking_id)}
          IN  /\ ~last'.raised
              /\ last'.status = 200
              /\ \A p \in pendings' : p.id # last'.executed
              /\ events' = events
              /\ IF target = {}
                 THEN /\ last'.reply \in {"booking_not_found", "no_booking_id"}
                      /\ bookings' = bookings
                 ELSE /\ last'.reply = "booking_cancelled"
                      /\ bookings' = (bookings \ target) \cup
                            {[b EXCEPT !.status = "CANCELLED"] : b \in target}]_vars

\* the identifier matches the event by primary key or by title
Matches(v, e) ==
    \/ Names(v, e.event_id)
    \/ v.t \in {"str", "int"} /\ Lower(TextOf(v)) = Lower(e.title)

\* C17: confirming a delete_event never deletes an event of another
\* organizer than the confirming user's; an identifier (id or title) that
\* matches only events of other organizers gives a described failure and
\* leaves the events unchanged.
C17_DeleteOwnEventsOnly ==
    [][ConfirmOf("delete_event") =>
          /\ \A e \in events \ events' :
                /\ profileOrg[last'.user] # NoOrganizer
                /\ e.organizer = profileOrg[last'.user]
          /\ (/\ \E e \in events :
                    /\ e.organizer # profileOrg[last'.user]
                    /\ Matches(last'.payload["identifier"], e)
              /\ \A e \in events :
                    Matches(last'.payload["identifier"], e)
                        => e.organizer # profileOrg[last'.user]) =>
                /\ ~last'.raised
                /\ last'.reply = "event_not_found"
                /\ events' = events
                /\ bookings' = bookings]_vars

C17_Witness ==
    /\ last.branch = "confirm"
    /\ last.kind = "delete_event"
    /\ last.payload \in {P_delete_foreign_id, P_delete_foreign_title}
    /\ last.reply = "event_not_found"
    /\ \E e \in events : e.event_id = 2 /\ e.organizer # profileOrg[last.user]

\* C18: every Event persisted by confirming a create_event satisfies
\* Event.clean; a payload that violates it gives a described failure and no
\* Event row.
C18_CreatedEventsAreClean ==
    [][ConfirmOf("create_event") =>
          /\ \A e \in events' \ events : EventClean(e, now)
          /\ events' = events => ~last'.raised]_vars

\* C19: confirming a create_event whose venue_name is absent or matches no
\* venue (case-insensitively) returns a described failure and creates
\* neither an Event nor a Venue.
C19_NoVenueNoEvent ==
    [][ChatStep =>
          /\ venues' = venues
          /\ (/\ last'.branch = "confirm"
              /\ last'.kind = "create_event"
              /\ \/ ~Truthy(Get(last'.payload, "venue_name"))
                 \/ \A v \in venues :
                       Lower(v.name) # Lower(TextOf(last'.payload["venue_name"]))) =>
                /\ ~last'.raised
                /\ last'.status = 200
                /\ last'.reply \in
                      {"no_organizer", "missing_venue_name", "venue_not_found"}
                /\ events' = events
                /\ nextEventId' = nextEventId]_vars

C19_Witness ==
    /\ last.branch = "confirm"
    /\ last.kind = "create_event"
    /\ last.payload = P_event_no_venue
    /\ last.reply = "venue_not_found"

\* C20: confirming a pending action of kind update_event or create_venue
\* changes no Event, Venue or Booking row, returns the "not yet implemented"
\* text and removes the pending action.
C20_UnimplementedKindsAreNoOps ==
    [][(ChatStep /\ last'.branch = "confirm"
            /\ last'.kind \in {"update_event", "create_venue"}) =>
          /\ RecordsUnchanged
          /\ nextEventId' = nextEventId
          /\ ~last'.raised
          /\ last'.status = 200
          /\ last'.reply = "not_implemented"
          /\ pendings' = pendings \ {MostRecent(pendings, last'.user)}
          /\ \A p \in pendings' : p.id # last'.executed]_vars

C20_Witness ==
    /\ last.branch = "confirm"
    /\ last.kind = "update_event"
    /\ last.payload = P_delete_own_id
    /\ last.reply = "not_implemented"
    /\ \E e \in events : e.event_id = 1

\* a request that asked plan_action
Asked == ChatStep /\ last'.asked.kind # "none"

\* C21: for a reply of the completion service that is no JSON, JSON that is
\* no object, or an object without "action", plan_action returns action
\* "none" and does not raise: the request goes on to the answer path.
C21_MalformedOutputIsNone ==
    [][(/\ Asked
        /\ \/ last'.asked.kind \in {"not_json", "non_object"}
           \/ last'.asked.kind = "object" /\ last'.asked.action.t = "missing") =>
          /\ ~last'.raised
          /\ last'.branch = "answer"
          /\ pendings' = pendings]_vars

\* C22: when the completion call fails during classification the request
\* still ends in a text reply, no fault reaches chat_api's caller, and no
\* pending action is created, executed or deleted.
C22_CompletionFailureIsSafe ==
    [][(Asked /\ last'.asked.kind = "error") =>
          /\ ~last'.raised
          /\ last'.status = 200
          /\ last'.executed = 0
          /\ last'.created = 0
          /\ LivePending(pendings', last'.user, now)
                = LivePending(pendings, last'.user, now)]_vars

\* C25: for every JSON object the completion service returns, plan_action
\* gives an action of the six kinds and params that are a mapping: an action
\* outside the set, of any JSON type, becomes "none", and params that are no
\* mapping become the empty mapping.
C25_ActionAndParamsCoerced ==
    [][(Asked /\ last'.asked.kind = "object") =>
          LET given == last'.asked.action
              action == IF given.t = "str" /\ given.name \in MutationKinds
                        THEN given.name ELSE "none"
              params == IF last'.asked.params.t = "dict"
                        THEN last'.asked.params.d ELSE NoParams
          IN  /\ ~last'.raised
              /\ action = "none" => last'.branch = "answer"
              /\ (action # "none" /\ profileOrg[last'.user] # NoOrganizer) =>
                    /\ last'.branch = "preview"
                    /\ last'.action = action
                    /\ last'.params = params]_vars

\* C23: chat_api answers 4xx exactly when the request carries no usable
\* message (body no JSON, message missing, empty or blank), and then reads,
\* creates, executes and deletes no pending action; every request with a
\* non-empty message gets a success response with a reply text.
C23_RejectsExactlyUnusableMessages ==
    [][ChatStep =>
          /\ (last'.status \in 400..499) <=> (last'.normalized = << >>)
          /\ last'.normalized = << >> =>
                /\ pendings' = pendings
                /\ nextPendingId' = nextPendingId
                /\ last'.had = 0
                /\ last'.dropped = 0
                /\ last'.executed = 0
                /\ last'.created = 0
                /\ RecordsUnchanged
          /\ last'.normalized # << >> =>
                /\ last'.status = 200
                /\ ~last'.raised]_vars

\* C26: a message is a confirmation (cancellation) exactly when, trimmed and
\* lower-cased, it is a member of the confirm (cancel) set; the sets are
\* disjoint; a message that only contains a phrase is neither and goes to
\* classification with the pending action kept.
C26_ExactPhraseMatching ==
    [][(ChatStep /\ last'.normalized # << >>) =>
          /\ confirm_phrases \cap cancel_phrases = {}
          /\ (last'.branch = "confirm")
                <=> (LoadedLive /\ last'.normalized \in confirm_phrases)
          /\ (last'.branch = "cancel")
                <=> (LoadedLive /\ last'.normalized \in cancel_phrases)
          /\ LoadedLive =>
                /\ last'.text \in {S_yes, S_YES_padded, S_do_it}
                      => last'.branch = "confirm"
                /\ last'.text \in {S_no, S_Abort} => last'.branch = "cancel"
                /\ last'.text \in {S_yes_please, S_hello} =>
                      /\ last'.branch \in Classified
                      /\ MostRecent(pendings, last'.user) \in pendings']_vars

C26_Witness ==
    /\ last.text = S_yes_please
    /\ last.branch \in Classified
    /\ last.had # 0
    /\ \E p \in pendings : p.id = last.had

\* the user's UserProfile.organizer is an organizer of that user with status
\* APPROVED
LinkedToApproved(user) ==
    \E o \in organizers :
        /\ o.organizer_id = profileOrg[user]
        /\ o.user = user
        /\ o.status = "APPROVED"

\* C24: through become_organizer, admin_organizer_approve and
\* admin_organizer_reject a user whose UserProfile.organizer is set has an
\* organizer with status APPROVED, so a pending action is created only for
\* users an administrator approved.
C24_PrivilegedIsApproved ==
    /\ \A u \in Users : profileOrg[u] # NoOrganizer => LinkedToApproved(u)
    /\ (last.op = "chat_api" /\ last.created # 0) => LinkedToApproved(last.user)

C24_Witness ==
    /\ last.user = "bob"
    /\ last.created # 0
    /\ profileOrg["bob"] # NoOrganizer
    /\ \E o \in organizers : o.user = "alice" /\ o.status = "REJECTED"

\* C30: a chat_api request of one user never executes, deletes, previews or
\* alters a pending action of another user; the other user's pending actions
\* are the same before and after it.
C30_PendingsIsolatedPerUser ==
    [][ChatStep =>
          /\ \A u \in Users \ {last'.user} :
                /\ {p \in pendings' : p.user = u} = {p \in pendings : p.user = u}
                /\ \A p \in pendings :
                      p.user = u =>
                          /\ last'.executed # p.id
                          /\ last'.had # p.id
                          /\ last'.dropped # p.id
          /\ \A p \in pendings' \ pendings :
                p.user = last'.user /\ p.id = last'.created]_vars

C30_Witness ==
    /\ last.branch = "confirm"
    /\ last.had # 0
    /\ \E p \in pendings : p.user # last.user /\ p.expires_at > now

\* the events of the user's organizer
OwnEvents(user) ==
    {e \in events :
        profileOrg[user] # NoOrganizer /\ e.organizer = profileOrg[user]}

\* C27: delete_event resolves the identifier as an event id first and by
\* case-insensitive title only when no owned event has that id: when it is
\* the id of one owned event and the title of another, the event with that
\* id is deleted; one confirmation deletes at most one event.
C27_DeleteResolvesIdFirst ==
    [][ConfirmOf("delete_event") =>
          LET identifier == last'.payload["identifier"]
              byId == {e \in OwnEvents(last'.user) :
                          Names(identifier, e.event_id)}
              byTitle == {e \in OwnEvents(last'.user) :
                          /\ identifier.t \in {"str", "int"}
                          /\ Lower(TextOf(identifier)) = Lower(e.title)}
          IN  /\ Cardinality(events \ events') <= 1
              /\ events' \subseteq events
              /\ byId # {} => events \ events' = byId
              /\ (byId = {} /\ byTitle # {}) =>
                    /\ Cardinality(events \ events') = 1
                    /\ events \ events' \subseteq byTitle
              /\ (byId = {} /\ byTitle = {}) => events' = events]_vars

C27_Witness ==
    /\ last.branch = "confirm"
    /\ last.kind = "delete_event"
    /\ last.payload = P_delete_id_text
    /\ last.reply = "event_deleted"
    /\ \E e \in events : e.title = S_1 /\ e.organizer = profileOrg[last.user]
    /\ \A e \in events : e.event_id # 1

\* C28: a stored pending action is never modified: as long as a row with its
\* primary key is stored, its owner, kind, payload, created_at and expires_at
\* are those of its creation, so no later message extends its expiry.
C28_PendingNeverModified ==
    [][/\ \A p \in pendings : \A q \in pendings' : q.id = p.id => q = p
       /\ \A q \in pendings' \ pendings :
             /\ q.id = nextPendingId
             /\ q.created_at = now
             /\ q.expires_at = now + TTL]_vars

C28_Witness ==
    /\ last.branch = "answer"
    /\ last.had # 0
    /\ \E p \in pendings :
          /\ p.id = last.had
          /\ p.created_at < now
          /\ p.expires_at = p.created_at + TTL

\* C29: ownership is checked again at confirmation: when the user has no
\* organizer link at the time of the confirm phrase, confirming a
\* create_event, delete_event or cancel_booking returns a described failure
\* and changes no Event or Booking.
C29_OwnershipRecheckedOnConfirm ==
    [][(/\ ChatStep
        /\ last'.branch = "confirm"
        /\ last'.kind \in {"create_event", "delete_event", "cancel_booking"}
        /\ profileOrg[last'.user] = NoOrganizer) =>
          /\ ~last'.raised
          /\ last'.status = 200
          /\ last'.reply \in {"no_organizer", "no_identifier", "event_not_found",
                               "no_booking_id", "booking_not_found"}
          /\ events' = events
          /\ bookings' = bookings]_vars

====
